---------------------------- MODULE Spec2Model ----------------------------
(***************************************************************************)
(* Model of src/softmax-1.py: a Vision Transformer whose attention adds a  *)
(* value-residual correction (Attention, adjoint_conv), whose blocks       *)
(* thread the first layer's value tensor v0 (Block), and whose forward     *)
(* pass rewrites the class-token slot after blocks 1..10                   *)
(* (VisionTransformer.forward_features).                                   *)
(*                                                                         *)
(* Tensors are modelled by their shape (a sequence of sizes) and, in the   *)
(* forward pass, by their storage: heap[ref] holds one abstract scalar per *)
(* (batch element, token), residues modulo ValMod.  Views (expand,         *)
(* slices) keep the ref of their base; every out-of-place torch operation  *)
(* allocates a new ref.                                                    *)
(***************************************************************************)
EXTENDS Integers, Sequences, FiniteSets, TLC

\* ------------------------------------------------------------- bounds
MaxDim == 4
MaxHeads == 3
MaxLayer == 2
MaxTokens == 2
ConvChannels == 2
ConvLen == 2
ConvValMax == 1
MaxEmbed == 2
MaxDepth == 12
MaxClasses == 2
MaxCalls == 2
MaxResets == 1
BatchN == 2
NumPatches == 1
ValMod == 7
RngMod == 2

\* ------------------------------------------------- program constants
\* kernel_size=1 of g_conv
KernelSize == 1
\* self.alpha = 0.6, in tenths
AlphaTenths == 6
\* the loop bound off by one: range(1, 12)
LoopEndLate == 11 + 1
\* `for i in range(1, 11)`: the first index the loop does not run
LoopEnd == 11
\* the dropout probability of test_block, drop = 0.1, in tenths
TestDrop == 1
\* the literals of test_attention_block and the constructor defaults
TestDim == 64
TestTokens == 16
DefaultHeads == 8
DefaultDepth == 12

\* Python's None and a present value, as a sequence of length 0 or 1
NoneVal == <<>>
Some(a) == <<a>>
Get(o) == o[1]

VARIABLES
    obj,        \* the module under construction/test: Attention or Block
    ret,        \* what the last constructor or forward call returned/raised
    weight,     \* g_conv.weight, [out channel][in channel][kernel position]
    bias,       \* g_conv.bias, [out channel]
    input,      \* the (channels x length) tensor handed to the convolution
    convOut,    \* result of the last convolution call
    convPc,     \* which convolution ran last
    script,     \* the driver's literals: constructor arguments and the image
    vit,        \* the VisionTransformer object (its fields)
    heap,       \* tensor storages that outlive an expression, by ref
    fp,         \* the running forward pass: position, loop index, x and v0
    trace,      \* history: block runs and rewrites of the running pass
    entry,      \* history: parameters and input as they were at call entry
    calls,      \* number of finished forward calls
    last,       \* history: what the latest finished forward call returned
    rng         \* torch's global generator state (advanced by active dropout)

vars == <<obj, ret, weight, bias, input, convOut, convPc,
          script, vit, heap, fp, trace, entry, calls, last, rng>>

\* ------------------------------------------------------------ shapes
RECURSIVE Numel(_)
Numel(s) == IF s = <<>> THEN 1 ELSE Head(s) * Numel(Tail(s))

\* torch.Tensor.permute: output dimension d is input dimension p[d] (1-based)
Permute(s, p) == [d \in 1..Len(p) |-> s[p[d]]]

\* torch.Tensor.reshape succeeds iff the element counts agree
CanReshape(s, new) == Numel(s) = Numel(new)

ErrRet(e) == [kind |-> "error", err |-> e, out |-> <<>>, v |-> <<>>]
PairRet(o, v) == [kind |-> "pair", err |-> "", out |-> o, v |-> v]
SingleRet(o) == [kind |-> "single", err |-> "", out |-> o, v |-> <<>>]

\* --------------------------------------------------------- Attention
\* Attention.__init__ with the assert left out
AttentionInitNoAssert(dim, num_heads, layerth) ==
    [kind |-> "Attention", err |-> "",
     dim |-> dim, num_heads |-> num_heads, layerth |-> layerth,
     g_conv_channels |-> dim \div num_heads]

\* Attention.__init__: the assert, then the fields the forward pass reads
AttentionInit(dim, num_heads, layerth) ==
    IF dim % num_heads # 0
    THEN [kind |-> "ctor_failed", err |-> "AssertionError",
          dim |-> dim, num_heads |-> num_heads, layerth |-> layerth,
          g_conv_channels |-> 0]
    ELSE [kind |-> "Attention", err |-> "",
          dim |-> dim, num_heads |-> num_heads, layerth |-> layerth,
          g_conv_channels |-> dim \div num_heads]

\* lines 44-45: qkv linear, reshape, permute(2,0,3,1,4), unbind(0).
\* Result: the shape of q, k and v, or <<>> when the linear layer or the
\* reshape raises.
QkvShape(self, x) ==
    LET B == x[1]
        N == x[2]
        C == x[3]
        lin == <<B, N, 3 * self.dim>>
        five == <<B, N, 3, self.num_heads, C \div self.num_heads>>
    IN  IF C # self.dim \/ ~CanReshape(lin, five)
        THEN <<>>
        ELSE Tail(Permute(five, <<3, 1, 4, 2, 5>>))

\* The value-residual branch for a layer with a supplied v0 (lines 52-59):
\* shape of res, or the error raised.
ResidualWithV0(self, x, v, v0) ==
    LET B == x[1]
        N == x[2]
        C == x[3]
        hd == C \div self.num_heads
        flat == <<B * self.num_heads, N, hd>>
        v_reshape == Permute(flat, <<1, 3, 2>>)
    IN  IF ~CanReshape(Get(v0), flat) THEN ErrRet("RuntimeError")
        ELSE IF v_reshape[2] # self.g_conv_channels THEN ErrRet("RuntimeError")
        ELSE SingleRet(<<B, self.num_heads, N, hd>>)

\* `if self.layerth > 0 and v0 is not None`: a missing v0 skips the correction
ValueResidualLenient(self, x, v, v0) ==
    IF self.layerth = NoneVal THEN ErrRet("TypeError")
    ELSE IF Get(self.layerth) > 0 /\ v0 # NoneVal
         THEN ResidualWithV0(self, x, v, v0)
         ELSE SingleRet(v)

\* lines 51-61: `if self.layerth > 0` ... `else: res = 0`.  v0.reshape on
\* None raises AttributeError; None > 0 raises TypeError.
ValueResidual(self, x, v, v0) ==
    IF self.layerth = NoneVal THEN ErrRet("TypeError")
    ELSE IF Get(self.layerth) > 0
         THEN IF v0 = NoneVal THEN ErrRet("AttributeError")
              ELSE ResidualWithV0(self, x, v, v0)
         ELSE SingleRet(v)

\* a slip in the return selection: the pair is returned by every layer but 0
AttentionReturnSwapped(self, out, v) ==
    IF self.layerth # Some(0) THEN PairRet(out, v) ELSE SingleRet(out)

\* lines 69-72
AttentionReturn(self, out, v) ==
    IF self.layerth = Some(0) THEN PairRet(out, v) ELSE SingleRet(out)

\* Attention.forward on shapes
AttentionForward(self, x, v0) ==
    LET v == QkvShape(self, x)
    IN  IF v = <<>> THEN ErrRet("RuntimeError")
        ELSE LET res == ValueResidual(self, x, v, v0)
             IN  IF res.kind = "error" THEN res
                 ELSE \* (attn @ v) + res, transpose(1,2), reshape(B,N,C), proj
                      LET t == Permute(v, <<1, 3, 2, 4>>)
                      IN  IF ~CanReshape(t, x) THEN ErrRet("RuntimeError")
                          ELSE AttentionReturn(self, x, v)

\* ------------------------------------------------------------- Block
\* Block.__init__ builds its Attention with the same dim, heads and layerth
BlockInit(dim, num_heads, layerth) ==
    LET attn == AttentionInit(dim, num_heads, layerth)
    IN  IF attn.kind = "ctor_failed" THEN attn
        ELSE [attn EXCEPT !.kind = "Block"]

BlockAttn(self) == [self EXCEPT !.kind = "Attention"]

\* Block.forward on shapes: norm1 needs the last axis to be dim; the
\* residual adds and the MLP keep the shape.
BlockForward(self, x, v0) ==
    IF x[3] # self.dim THEN ErrRet("RuntimeError")
    ELSE LET a == IF self.layerth = Some(0)
                  THEN AttentionForward(BlockAttn(self), x, NoneVal)
                  ELSE AttentionForward(BlockAttn(self), x, v0)
         IN  IF a.kind = "error" THEN a
             ELSE IF self.layerth = Some(0)
                  THEN IF a.kind = "pair" THEN PairRet(a.out, a.v)
                       ELSE ErrRet("TypeError")
                  ELSE SingleRet(a.out)

\* ------------------------------------------------------ adjoint_conv
Channels == 1..ConvChannels
Positions == 1..ConvLen
ConvVals == 0..ConvValMax

RECURSIVE SumOver(_, _)
SumOver(f, S) ==
    IF S = {} THEN 0
    ELSE LET e == CHOOSE z \in S : TRUE IN f[e] + SumOver(f, S \ {e})

\* torch.flip(w, dims=[2]): reverse the kernel-position axis
Flip(w) == [o \in Channels |-> [c \in Channels |->
              [k \in 1..KernelSize |-> w[o][c][KernelSize + 1 - k]]]]

\* nn.functional.conv1d, stride 1, no padding, no dilation
Conv1d(in, w, b) ==
    [o \in Channels |-> [l \in 1..(ConvLen - KernelSize + 1) |->
        b[o] + SumOver([ck \in Channels \X (1..KernelSize) |->
                           w[o][ck[1]][ck[2]] * in[ck[1]][l + ck[2] - 1]],
                       Channels \X (1..KernelSize))]]

\* self.g_conv(input)
GConv(in) == Conv1d(in, weight, bias)

\* Attention.adjoint_conv(conv, input), lines 75-78
AdjointConv(in) == Conv1d(in, Flip(weight), bias)

\* --------------------------------------------------- layers (widths)
Identity == [kind |-> "Identity", inF |-> 0, outF |-> 0, w |-> 0]
Linear(i, o, w) == [kind |-> "Linear", inF |-> i, outF |-> o, w |-> w]

\* Width of a layer's output for an input of width n; 0 when the matrix
\* product raises (n is not the layer's in_features).
OutWidth(layer, n) ==
    IF n = 0 THEN 0
    ELSE IF layer.kind = "Identity" THEN n
    ELSE IF n = layer.inF THEN layer.outF ELSE 0

\* Value of a layer on the abstract scalar z
Apply(layer, z) ==
    IF layer.kind = "Identity" THEN z ELSE (layer.w * z + 1) % ValMod

\* weights of freshly initialised layers, by how many heads were built before
FreshW(gen) == 1 + (gen % (ValMod - 1))

\* ------------------------------------------------ VisionTransformer
NoModel ==
    [kind |-> "none", err |-> "", embed_dim |-> 0, num_heads |-> 0,
     num_classes |-> 0, num_features |-> 0, num_tokens |-> 0,
     blocks |-> <<>>, pre_logits |-> Identity, head |-> Identity,
     reverse_head |-> Identity, head_dist |-> NoneVal, drop_rate |-> 0,
     training |-> TRUE, resets |-> 0]

\* lines 163-168: one Block per index of range(depth), layerth = i
BuildBlocks(embed_dim, num_heads, depth) ==
    [i \in 1..depth |-> BlockInit(embed_dim, num_heads, Some(i - 1))]

\* VisionTransformer.__init__ (representation_size 0 stands for None: both
\* are falsy at line 174)
VisionTransformerInit(a) ==
    LET blocks == BuildBlocks(a.embed_dim, a.num_heads, a.depth)
        rep == a.representation_size # 0 /\ ~a.distilled
        num_features == IF rep THEN a.representation_size ELSE a.embed_dim
    IN  IF \E i \in 1..Len(blocks) : blocks[i].kind = "ctor_failed"
        THEN [NoModel EXCEPT !.kind = "ctor_failed", !.err = "AssertionError"]
        ELSE [kind |-> "VisionTransformer", err |-> "",
              embed_dim |-> a.embed_dim, num_heads |-> a.num_heads,
              num_classes |-> a.num_classes, num_features |-> num_features,
              num_tokens |-> IF a.distilled THEN 2 ELSE 1,
              blocks |-> blocks,
              pre_logits |-> IF rep
                             THEN Linear(a.embed_dim, a.representation_size, FreshW(1))
                             ELSE Identity,
              head |-> IF a.num_classes > 0
                       THEN Linear(num_features, a.num_classes, FreshW(0))
                       ELSE Identity,
              reverse_head |-> IF a.num_classes > 0
                               THEN Linear(a.num_classes, a.embed_dim, FreshW(2))
                               ELSE Identity,
              head_dist |-> IF a.distilled
                            THEN Some(IF a.num_classes > 0
                                      THEN Linear(a.embed_dim, a.num_classes, FreshW(3))
                                      ELSE Identity)
                            ELSE NoneVal,
              drop_rate |-> a.drop_rate,
              training |-> TRUE, resets |-> 0]

\* VisionTransformer.reset_classifier, lines 224-229.  reverse_head and
\* pre_logits are not touched; the fresh self.norm has the weights of the
\* initial one (no training step is modelled), so Norm stays as it is.
ResetClassifier(self, num_classes) ==
    [self EXCEPT
        !.num_classes = num_classes,
        !.head = IF num_classes > 0
                 THEN Linear(self.embed_dim, num_classes, FreshW(self.resets + 1))
                 ELSE Identity,
        !.head_dist = IF self.num_tokens = 2
                      THEN Some(IF num_classes > 0
                                THEN Linear(self.embed_dim, num_classes,
                                            FreshW(self.resets + 3))
                                ELSE Identity)
                      ELSE self.head_dist,
        !.resets = self.resets + 1]

\* ------------------------------------------- tensor contents (abstract)
Batch == 1..BatchN

Add(d, e) == [b \in 1..Len(d) |-> [t \in 1..Len(d[b]) |->
                (d[b][t] + e[b][t]) % ValMod]]

RECURSIVE SumSeq(_)
SumSeq(q) == IF q = <<>> THEN 0 ELSE Head(q) + SumSeq(Tail(q))

\* nn.LayerNorm acts on each token alone
Norm(z) == (2 * z + 1) % ValMod
\* timm's Mlp, PatchEmbed: token-wise maps
MlpVal(z) == (3 * z + 2) % ValMod
PatchEmbedVal(z) == (z + 1) % ValMod
\* the same, over a whole (batch x token) tensor
NormAll(d) == [b \in 1..Len(d) |-> [t \in 1..Len(d[b]) |-> Norm(d[b][t])]]
MlpAll(d) == [b \in 1..Len(d) |-> [t \in 1..Len(d[b]) |-> MlpVal(d[b][t])]]
PatchEmbedAll(d) ==
    [b \in 1..Len(d) |-> [t \in 1..Len(d[b]) |-> PatchEmbedVal(d[b][t])]]
\* per-layer weights after init_weights
Wt(i) == 1 + (i % (ValMod - 1))
\* g_conv on one channel: weight and bias; the kernel flip of adjoint_conv
\* is the identity on a kernel of size 1
GConvVal(i, z) == (Wt(i) * z + 1) % ValMod
AdjointConvVal(i, z) == (Wt(i) * z + 1) % ValMod

DropActive(self) == self.training /\ self.drop_rate > 0

\* nn.Dropout(p): identity unless training with p > 0; then the mask drawn
\* from generator state r zeroes elements and the rest is scaled by 1/(1-p)
Dropout(self, d, r) ==
    IF ~DropActive(self) THEN d
    ELSE [b \in 1..Len(d) |-> [t \in 1..Len(d[b]) |->
            IF (r + b + t) % 2 = 0
            THEN ((d[b][t] * 10) \div (10 - self.drop_rate)) % ValMod
            ELSE 0]]

\* Attention.forward and Block.forward on contents, for layer index i:
\* the new x and this layer's value tensor v.  attn_drop and drop_path stay
\* at the constructor defaults (rate 0: identity); proj_drop and the Mlp's
\* dropout use drop_rate.
BlockData(self, i, x, v0, r) ==
    LET n1 == NormAll(x)
        v == [b \in 1..Len(x) |-> [t \in 1..Len(x[b]) |->
                (Wt(i) * n1[b][t]) % ValMod]]
        res == [b \in 1..Len(x) |-> [t \in 1..Len(x[b]) |->
                  IF i > 0
                  THEN (AlphaTenths *
                        AdjointConvVal(i, v0[b][t] - GConvVal(i, v[b][t])))
                       % ValMod
                  ELSE 0]]
        proj == [b \in 1..Len(x) |-> [t \in 1..Len(x[b]) |->
                   (SumSeq(v[b]) + res[b][t] + 1) % ValMod]]
        x1 == Add(x, Dropout(self, proj, r))
        x2 == Add(x1, Dropout(self, MlpAll(NormAll(x1)), r + 1))
    IN  [x |-> x2, v |-> v]

\* an in-place correction `v0_reshape -= g_conv(v_reshape)` on a view of v0
V0InPlace(i, v0, v) ==
    [b \in 1..Len(v0) |-> [t \in 1..Len(v0[b]) |->
        (v0[b][t] - GConvVal(i, v[b][t])) % ValMod]]

\* What the storage of v0 holds after a later layer's attention ran (lines
\* 52-57): v0.reshape/permute and the subtraction are out of place.
V0AfterAttention(i, v0, v) == v0

\* a slice assignment `x[:, :, :] = ...` instead of `x[:, 0, :] = ...`
SlotOverwriteAll(d, vals) ==
    [b \in 1..Len(d) |-> [t \in 1..Len(d[b]) |-> vals[b]]]

\* x[:, 0, :] = vals (line 244): token 0 of every batch element
SlotOverwrite(d, vals) ==
    [b \in 1..Len(d) |-> [d[b] EXCEPT ![1] = vals[b]]]

\* refs of the storages that outlive a call
InputRef == 1
ClsRef == 2
PosRef == 3
DistRef == 4
PersistLen(self) == IF self.num_tokens = 2 THEN 4 ELSE 3

\* writing through the local `cls_token` (an expand view of the parameter)
RewriteTargetCls(f) == ClsRef

\* the tensor line 244 writes into: the running sequence x
RewriteTarget(f) == f.xRef

\* mid_class_prediction and its re-projection, for batch element b
MidVals(self, x) ==
    [b \in 1..BatchN |->
        Apply(self.reverse_head,
              Apply(self.head, Apply(self.pre_logits, Norm(x[b][1]))))]

\* width of reverse_head(head(pre_logits(norm(x)[:, 0]))); 0 if a layer raises
MidWidth(self) ==
    OutWidth(self.reverse_head,
             OutWidth(self.head, OutWidth(self.pre_logits, self.embed_dim)))

\* a (B, w) value can be assigned to the (B, embed_dim) slot iff w is
\* embed_dim or broadcasts from 1
SlotAccepts(self, w) == w = self.embed_dim \/ w = 1

\* ------------------------------------------------------------ drivers
\* Input images (one abstract scalar per batch element and patch)
Images ==
    { [b \in Batch |-> [q \in 1..NumPatches |-> 0]],
      [b \in Batch |-> [q \in 1..NumPatches |-> 1]],
      [b \in Batch |-> [q \in 1..NumPatches |-> (b + q) % ValMod]] }

ZeroImage == [b \in Batch |-> [q \in 1..NumPatches |-> 0]]

ResetSeqs == UNION { [1..n -> 0..MaxClasses] : n \in 0..MaxResets }

BaseScript ==
    [kind |-> "unit", embed_dim |-> MaxEmbed, num_heads |-> 1,
     depth |-> DefaultDepth, num_classes |-> MaxClasses,
     representation_size |-> 0, distilled |-> FALSE, drop_rate |-> 0,
     eval_mode |-> TRUE, image |-> ZeroImage, resets |-> <<>>]

\* the unit tests in the source's trailing docstring
UnitScripts == {BaseScript}

\* the __main__ driver with every (embed_dim, num_heads, depth), with and
\* without distillation token, dropout and eval mode, on each image
DepthScripts ==
    { [BaseScript EXCEPT !.kind = "main", !.embed_dim = e, !.num_heads = h,
                         !.depth = d, !.distilled = ds, !.drop_rate = p,
                         !.eval_mode = ev, !.image = img] :
        e \in 1..MaxEmbed, h \in 1..MaxEmbed, d \in 0..MaxDepth,
        ds \in BOOLEAN, p \in {0, TestDrop}, ev \in BOOLEAN, img \in Images }

\* the __main__ driver at the default depth with every head configuration
\* and every sequence of reset_classifier calls
HeadScripts ==
    { [BaseScript EXCEPT !.kind = "main", !.num_classes = nc,
                         !.representation_size = rs, !.distilled = ds,
                         !.resets = rq] :
        nc \in 0..MaxClasses, rs \in 0..MaxEmbed, ds \in BOOLEAN,
        rq \in ResetSeqs }

Scripts == UnitScripts \cup DepthScripts \cup HeadScripts

\* ------------------------------------------------------------- state
NoCall == [called |-> FALSE, x |-> <<>>, v0 |-> NoneVal, r |-> ErrRet("")]
NoObj == [kind |-> "none", err |-> "", dim |-> 0, num_heads |-> 0,
          layerth |-> NoneVal, g_conv_channels |-> 0]
IdleFp == [pc |-> "idle", i |-> 0, xRef |-> 0, v0Ref |-> 0, xShape |-> <<>>,
           v0Shape |-> NoneVal, err |-> "", out |-> <<>>]
NoEntry == [persist |-> <<>>, vit |-> NoModel]
NoLast == [kind |-> "none", err |-> "", out |-> <<>>, entry |-> NoEntry]
ZeroWeight == [o \in Channels |-> [c \in Channels |-> [k \in 1..KernelSize |-> 0]]]
ZeroBias == [o \in Channels |-> 0]
ZeroInput == [c \in Channels |-> [l \in Positions |-> 0]]

ConvIdle ==
    /\ weight = ZeroWeight /\ bias = ZeroBias /\ input = ZeroInput
    /\ convOut = <<>> /\ convPc = "none"

ModelIdle ==
    /\ obj = NoObj /\ ret = NoCall /\ vit = NoModel /\ heap = <<>>
    /\ fp = IdleFp /\ trace = <<>> /\ entry = NoEntry /\ calls = 0
    /\ last = NoLast /\ rng = 0

Init ==
    /\ script \in Scripts
    /\ ConvIdle
    /\ obj = NoObj /\ ret = NoCall /\ vit = NoModel
    /\ heap = IF script.kind = "main" THEN <<script.image>> ELSE <<>>
    /\ fp = IdleFp /\ trace = <<>> /\ entry = NoEntry /\ calls = 0
    /\ last = NoLast /\ rng = 0

convVars == <<weight, bias, input, convOut, convPc>>
unitVars == <<obj, ret>>
passVars == <<vit, heap, fp, trace, entry, calls, last, rng>>

\* ----------------------------------------- unit calls (shape level)
UnitDims == (1..MaxDim) \cup {TestDim}
UnitHeads == (1..MaxHeads) \cup {DefaultHeads}
UnitLayers == {NoneVal} \cup {Some(l) : l \in 0..MaxLayer}
UnitShapes == { <<b, n, c>> : b \in Batch, n \in (1..MaxTokens) \cup {TestTokens},
                              c \in UnitDims }

\* v0 arguments tried: none, the shape layer 0 would produce, the input's
\* own shape (same element count), a tensor of one element
V0Choices(self, x) ==
    { NoneVal,
      Some(<<x[1], self.num_heads, x[2], x[3] \div self.num_heads>>),
      Some(x),
      Some(<<1, 1, 1, 1>>) }

NewAttention ==
    /\ script.kind = "unit" /\ obj.kind = "none"
    /\ \E dim \in UnitDims, h \in UnitHeads, l \in UnitLayers :
          obj' = AttentionInit(dim, h, l)
    /\ UNCHANGED <<ret, script, convVars, passVars>>

NewBlock ==
    /\ script.kind = "unit" /\ obj.kind = "none"
    /\ \E dim \in UnitDims, h \in UnitHeads, l \in UnitLayers :
          obj' = BlockInit(dim, h, l)
    /\ UNCHANGED <<ret, script, convVars, passVars>>

CallAttention ==
    /\ obj.kind = "Attention" /\ ~ret.called
    /\ \E x \in UnitShapes : \E v0 \in V0Choices(obj, x) :
          ret' = [called |-> TRUE, x |-> x, v0 |-> v0,
                  r |-> AttentionForward(obj, x, v0)]
    /\ UNCHANGED <<obj, script, convVars, passVars>>

CallBlock ==
    /\ obj.kind = "Block" /\ ~ret.called
    /\ \E x \in UnitShapes : \E v0 \in V0Choices(obj, x) :
          ret' = [called |-> TRUE, x |-> x, v0 |-> v0,
                  r |-> BlockForward(obj, x, v0)]
    /\ UNCHANGED <<obj, script, convVars, passVars>>

\* ------------------------------------------------- the __main__ driver
Running == vit.kind = "VisionTransformer"

\* model = VisionTransformer(...): the parameters get their storages
Construct ==
    /\ script.kind = "main" /\ vit.kind = "none"
    /\ vit' = VisionTransformerInit(script)
    /\ heap' = IF vit'.kind = "VisionTransformer"
               THEN heap \o << << <<1>> >>,
                               << [t \in 1..(NumPatches + vit'.num_tokens) |->
                                     t % ValMod] >> >>
                         \o (IF vit'.num_tokens = 2 THEN << << <<2>> >> >> ELSE <<>>)
               ELSE heap
    /\ UNCHANGED <<script, convVars, unitVars, fp, trace, entry, calls, last, rng>>

\* model.eval(): self.training (read at line 256 and by every dropout)
Eval ==
    /\ Running /\ fp.pc = "idle" /\ calls = 0
    /\ script.eval_mode /\ vit.training
    /\ vit' = [vit EXCEPT !.training = FALSE]
    /\ UNCHANGED <<script, convVars, unitVars, heap, fp, trace, entry, calls,
                   last, rng>>

\* model.reset_classifier(num_classes) between forward calls
Reset ==
    /\ Running /\ fp.pc = "idle"
    /\ vit.resets < Len(script.resets)
    /\ vit' = ResetClassifier(vit, script.resets[vit.resets + 1])
    /\ UNCHANGED <<script, convVars, unitVars, heap, fp, trace, entry, calls,
                   last, rng>>

Fail(e) == [fp EXCEPT !.pc = "failed", !.err = e]
Step(k) == IF DropActive(vit) THEN (rng + k) % RngMod ELSE rng

\* forward_features lines 233-239: patch_embed, cat with the expanded
\* cls_token (and dist_token), + pos_embed, pos_drop
ForwardStart ==
    /\ Running /\ fp.pc = "idle" /\ calls < MaxCalls
    /\ script.eval_mode => ~vit.training
    /\ LET patches == PatchEmbedAll(heap[InputRef])
           cls == heap[ClsRef][1]
           dist == IF vit.num_tokens = 2 THEN heap[DistRef][1] ELSE <<>>
           cat == [b \in Batch |-> cls \o dist \o patches[b]]
           pos == [b \in Batch |-> heap[PosRef][1]]
           x == Dropout(vit, Add(cat, pos), rng)
       IN  /\ heap' = Append(heap, x)
           /\ fp' = [IdleFp EXCEPT !.pc = "block0", !.xRef = Len(heap) + 1,
                        !.xShape = <<BatchN, NumPatches + vit.num_tokens,
                                     vit.embed_dim>>]
    /\ entry' = [persist |-> SubSeq(heap, 1, PersistLen(vit)), vit |-> vit]
    /\ trace' = <<>>
    /\ rng' = Step(1)
    /\ UNCHANGED <<script, convVars, unitVars, vit, calls, last>>

\* line 240: x, v0 = self.blocks[0](x)
RunBlock0 ==
    /\ fp.pc = "block0"
    /\ IF Len(vit.blocks) < 1
       THEN /\ fp' = Fail("IndexError")
            /\ UNCHANGED <<heap, trace, rng>>
       ELSE LET r == BlockForward(vit.blocks[1], fp.xShape, NoneVal)
                d == BlockData(vit, 0, heap[fp.xRef], <<>>, rng)
            IN  IF r.kind # "pair"
                THEN /\ fp' = Fail(IF r.kind = "error" THEN r.err ELSE "ValueError")
                     /\ UNCHANGED <<heap, trace, rng>>
                ELSE /\ heap' = heap \o <<d.x, d.v>>
                     /\ fp' = [fp EXCEPT !.pc = "loop", !.i = 1,
                                  !.xRef = Len(heap) + 1, !.v0Ref = Len(heap) + 2,
                                  !.xShape = r.out, !.v0Shape = Some(r.v)]
                     /\ trace' = Append(trace, [op |-> "block", i |-> 0, v0 |-> d.v])
                     /\ rng' = Step(2)
    /\ UNCHANGED <<script, convVars, unitVars, vit, entry, calls, last>>

\* lines 241-242: x = self.blocks[i](x, v0 = v0) for the next i of range(1, 11)
LoopBlock ==
    /\ fp.pc = "loop" /\ fp.i < LoopEnd
    /\ IF fp.i >= Len(vit.blocks)
       THEN /\ fp' = Fail("IndexError")
            /\ UNCHANGED <<heap, trace, rng>>
       ELSE LET r == BlockForward(vit.blocks[fp.i + 1], fp.xShape, fp.v0Shape)
                v0 == heap[fp.v0Ref]
                d == BlockData(vit, fp.i, heap[fp.xRef], v0, rng)
            IN  IF r.kind = "error"
                THEN /\ fp' = Fail(r.err)
                     /\ UNCHANGED <<heap, trace, rng>>
                ELSE /\ heap' = Append([heap EXCEPT ![fp.v0Ref] =
                                           V0AfterAttention(fp.i, v0, d.v)], d.x)
                     /\ fp' = [fp EXCEPT !.pc = "rewrite", !.xRef = Len(heap) + 1,
                                  !.xShape = r.out]
                     /\ trace' = Append(trace, [op |-> "block", i |-> fp.i, v0 |-> v0])
                     /\ rng' = Step(2)
    /\ UNCHANGED <<script, convVars, unitVars, vit, entry, calls, last>>

\* lines 243-244: mid_class_prediction, then x[:, 0, :] = reverse_head(...)
Rewrite ==
    /\ fp.pc = "rewrite"
    /\ IF MidWidth(vit) = 0 \/ ~SlotAccepts(vit, MidWidth(vit))
       THEN /\ fp' = Fail("RuntimeError")
            /\ UNCHANGED <<heap, trace>>
       ELSE /\ heap' = [heap EXCEPT ![RewriteTarget(fp)] =
                           SlotOverwrite(@, MidVals(vit, heap[fp.xRef]))]
            /\ fp' = [fp EXCEPT !.pc = "loop", !.i = fp.i + 1]
            /\ trace' = Append(trace, [op |-> "rewrite", i |-> fp.i, v0 |-> <<>>])
    /\ UNCHANGED <<script, convVars, unitVars, vit, entry, calls, last, rng>>

\* forward() on what forward_features returns (lines 246-263); widths of
\* the logits, 0 when a head raises or the two heads' logits cannot be added
OutWidthOf(self) ==
    IF self.head_dist = NoneVal
    THEN OutWidth(self.head, OutWidth(self.pre_logits, self.embed_dim))
    ELSE LET a == OutWidth(self.head, self.embed_dim)
             b == OutWidth(Get(self.head_dist), self.embed_dim)
         IN  IF a = 0 \/ b = 0 THEN 0
             ELSE IF self.training THEN a
             ELSE IF a = b \/ b = 1 THEN a
             ELSE IF a = 1 THEN b ELSE 0

OutVals(self, xn) ==
    [b \in Batch |->
        IF self.head_dist = NoneVal
        THEN <<Apply(self.head, Apply(self.pre_logits, xn[b][1]))>>
        ELSE LET h == Apply(self.head, xn[b][1])
                 hd == Apply(Get(self.head_dist), xn[b][2])
             IN  IF self.training THEN <<h, hd>> ELSE <<(h + hd) % ValMod>>]

\* the loop is exhausted: final norm, class-token extraction, classifier
Finish ==
    /\ fp.pc = "loop" /\ fp.i >= LoopEnd
    /\ IF OutWidthOf(vit) = 0
       THEN fp' = Fail("RuntimeError")
       ELSE fp' = [fp EXCEPT !.pc = "done",
                      !.out = OutVals(vit, NormAll(heap[fp.xRef]))]
    /\ UNCHANGED <<script, convVars, unitVars, vit, heap, trace, entry, calls,
                   last, rng>>

\* the call returns or raises to the driver; its temporaries are released
Return ==
    /\ fp.pc \in {"done", "failed"}
    /\ last' = [kind |-> IF fp.pc = "done" THEN "ok" ELSE "error",
                err |-> fp.err, out |-> fp.out, entry |-> entry]
    /\ calls' = calls + 1
    /\ heap' = SubSeq(heap, 1, PersistLen(vit))
    /\ fp' = IdleFp
    /\ UNCHANGED <<script, convVars, unitVars, vit, trace, entry, rng>>

Next ==
    \/ NewAttention \/ NewBlock \/ CallAttention \/ CallBlock
    \/ Construct \/ Eval \/ Reset
    \/ ForwardStart \/ RunBlock0 \/ LoopBlock \/ Rewrite \/ Finish \/ Return

Spec == Init /\ [][Next]_vars

\* ----------------------------------------------- convolution harness
InitConv ==
    /\ script = BaseScript
    /\ ModelIdle
    /\ weight \in [Channels -> [Channels -> [1..KernelSize -> ConvVals]]]
    /\ bias \in [Channels -> ConvVals]
    /\ input \in [Channels -> [Positions -> ConvVals]]
    /\ convOut = <<>> /\ convPc = "none"

\* self.g_conv(input)
ApplyGConv ==
    /\ convPc = "none"
    /\ convOut' = GConv(input)
    /\ convPc' = "g_conv"
    /\ UNCHANGED <<weight, bias, input, script, unitVars, passVars>>

\* self.adjoint_conv(self.g_conv, input)
ApplyAdjointConv ==
    /\ convPc = "none"
    /\ convOut' = AdjointConv(input)
    /\ convPc' = "adjoint_conv"
    /\ UNCHANGED <<weight, bias, input, script, unitVars, passVars>>

NextConv == ApplyGConv \/ ApplyAdjointConv

SpecConv == InitConv /\ [][NextConv]_vars

\* ------------------------------------------------------------ claims
Depth == Len(vit.blocks)
Min(a, b) == IF a < b THEN a ELSE b
BlockEvents == SelectSeq(trace, LAMBDA ev : ev.op = "block")
RewriteEvents == SelectSeq(trace, LAMBDA ev : ev.op = "rewrite")

\* C1: in a forward pass of a model of depth D >= 1 the blocks 0..D-1 run
\* exactly once each, in increasing order: no index >= D is accessed
\* (no IndexError), the blocks run so far are 0, 1, 2, ... in order, and a
\* pass that completes has run all D of them.
C1_EveryBlockRunsOnce ==
    (Running /\ Depth >= 1) =>
        /\ fp.err # "IndexError"
        /\ \A k \in 1..Len(BlockEvents) : BlockEvents[k].i = k - 1
        /\ fp.pc = "done" => Len(BlockEvents) = Depth

\* C2: the class-token rewrite follows block i at once, before the next
\* block, for exactly the indices i in 1..min(D-1, 10): every rewrite comes
\* right after the block of the same index in that range, every block in
\* that range that is followed by anything is followed by its rewrite, and a
\* pass that completes (or runs out of blocks) has made min(D-1, 10) of them.
C2_RewritesExactly ==
    Running =>
        /\ \A k \in 1..Len(trace) :
              trace[k].op = "rewrite" =>
                 /\ k > 1
                 /\ trace[k - 1].op = "block"
                 /\ trace[k - 1].i = trace[k].i
                 /\ trace[k].i \in 1..Min(Depth - 1, 10)
        /\ \A k \in 1..(Len(trace) - 1) :
              (trace[k].op = "block" /\ trace[k].i \in 1..Min(Depth - 1, 10)) =>
                 (trace[k + 1].op = "rewrite" /\ trace[k + 1].i = trace[k].i)
        /\ fp.pc = "done" => Len(RewriteEvents) = Min(Depth - 1, 10)
        /\ (fp.err = "IndexError" /\ Depth >= 1) =>
              Len(RewriteEvents) = Min(Depth - 1, 10)

C2_Witness ==
    /\ fp.pc = "done" /\ Depth > 11
    /\ Len(RewriteEvents) = 10
    /\ trace[Len(trace)].op = "rewrite" /\ trace[Len(trace)].i = 10

AttentionCtorOk ==
    obj.kind # "none" =>
        (obj.kind = "ctor_failed" <=> obj.dim % obj.num_heads # 0)

C4_MissingV0Fails ==
    (ret.called /\ obj.layerth # NoneVal /\ ret.v0 = NoneVal) =>
        (Get(obj.layerth) > 0 => ret.r.kind = "error")

C4_Witness ==
    /\ ret.called /\ obj.kind = "Block" /\ obj.layerth = Some(1)
    /\ ret.v0 = NoneVal /\ ret.x[3] = obj.dim
    /\ ret.r.kind = "error" /\ ret.r.err = "AttributeError"

\* C5: a call that returns, returns by layer index: layer 0 the pair
\* (output, v) with output of the input's shape (B,N,C) and v of shape
\* (B, num_heads, N, C/num_heads); every layer > 0 the output alone, of
\* shape (B,N,C).  A layer-0 call on an input of the module's width returns.
C5_ReturnByLayer ==
    (ret.called /\ obj.layerth # NoneVal) =>
        /\ (ret.r.kind # "error" /\ obj.layerth = Some(0)) =>
              /\ ret.r.kind = "pair"
              /\ ret.r.out = ret.x
              /\ ret.r.v = <<ret.x[1], obj.num_heads, ret.x[2],
                             ret.x[3] \div obj.num_heads>>
        /\ (ret.r.kind # "error" /\ Get(obj.layerth) > 0) =>
              /\ ret.r.kind = "single"
              /\ ret.r.out = ret.x
        /\ (obj.layerth = Some(0) /\ ret.x[3] = obj.dim) => ret.r.kind = "pair"

C5_Witness ==
    /\ ret.called /\ obj.kind = "Attention" /\ obj.layerth = Some(0)
    /\ obj.dim = TestDim /\ obj.num_heads = DefaultHeads
    /\ ret.x = <<1, TestTokens, TestDim>>
    /\ ret.r.kind = "pair" /\ ret.r.v = <<1, 8, 16, 8>>

\* C6: once block 0 has produced v0, its storage keeps that content for the
\* rest of the pass, and every later block was handed exactly that content.
C6_V0Frozen ==
    (Running /\ fp.v0Ref # 0) =>
        /\ heap[fp.v0Ref] = trace[1].v0
        /\ \A k \in 1..Len(trace) :
              (trace[k].op = "block" /\ trace[k].i >= 1) =>
                 trace[k].v0 = trace[1].v0

C6_Witness ==
    /\ fp.pc = "done" /\ fp.v0Ref # 0
    /\ Len(RewriteEvents) >= 2
    /\ heap[fp.v0Ref] = trace[1].v0
    /\ heap[fp.v0Ref] # heap[fp.xRef]

\* C7: a rewrite step leaves every token with sequence index >= 1 (1-based:
\* t >= 2) of every batch element as it was.
C7_RewriteOnlyClassToken ==
    [][(fp.pc = "rewrite" /\ fp'.pc = "loop") =>
          \A b \in Batch : \A t \in 2..Len(heap[fp.xRef][b]) :
              heap'[fp'.xRef][b][t] = heap[fp.xRef][b][t]]_vars

C7_Witness ==
    /\ Running /\ vit.num_tokens = 2
    /\ fp.pc = "loop" /\ Len(trace) > 0
    /\ trace[Len(trace)].op = "rewrite"
    /\ \E b \in Batch : heap[fp.xRef][b][2] # heap[fp.xRef][b][1]

\* C8: while a call runs, the input tensor, the stored parameters and the
\* model's fields are what they were at its entry; and with dropout
\* inactive, a call entered with the same input and parameters as the
\* previous call returns the same output.
C8_NoStateBetweenCalls ==
    (Running /\ fp.pc # "idle") =>
        /\ SubSeq(heap, 1, PersistLen(vit)) = entry.persist
        /\ vit = entry.vit
        /\ (fp.pc = "done" /\ last.kind = "ok" /\ last.entry = entry
               /\ ~DropActive(vit)) => fp.out = last.out

C8_Witness ==
    /\ fp.pc = "done" /\ calls >= 1 /\ last.kind = "ok"
    /\ last.entry = entry /\ ~DropActive(vit)
    /\ Len(RewriteEvents) = 10
    /\ fp.out = last.out

\* C9: adjoint_conv applies the transposed channel map plus the bias:
\* output[i][l] = sum_j W[j][i][0] * input[j][l] + b[i].
C9_AdjointIsTranspose ==
    convPc = "adjoint_conv" =>
        \A i \in Channels : \A l \in Positions :
            convOut[i][l] =
                SumOver([j \in Channels |-> weight[j][i][1] * input[j][l]],
                        Channels) + bias[i]

\* C10: after construction and after any reset_classifier calls, the head
\* takes the width pre_logits produces, reverse_head takes the width the
\* head produces and yields embed_dim, so the mid-layer computation and the
\* slot overwrite are shape-consistent.
C10_HeadWidthsConsistent ==
    Running =>
        /\ vit.head.kind = "Linear" =>
              vit.head.inF = OutWidth(vit.pre_logits, vit.embed_dim)
        /\ (vit.head.kind = "Linear" /\ vit.reverse_head.kind = "Linear") =>
              vit.head.outF = vit.reverse_head.inF
        /\ vit.reverse_head.kind = "Linear" =>
              vit.reverse_head.outF = vit.embed_dim
        /\ MidWidth(vit) # 0
        /\ SlotAccepts(vit, MidWidth(vit))

=============================================================================
